---- MODULE Spec2Model ----
(***************************************************************************)
(* The CUDA part of the Wasmer C API (lib/c-api/src/wasm_c_api/cuda.rs):   *)
(* the life cycle of a cuda_env_t handle and the three import queries      *)
(* cuda_get_imports, cuda_wasi_get_imports and cuda_get_unordered_imports. *)
(*                                                                         *)
(* A behaviour is one caller thread working on one compiled module: it     *)
(* creates and deletes GPU environments and calls the queries with any     *)
(* combination of present and NULL handles.  The out-parameter of a query  *)
(* is a vector the caller prepared (wasm_extern_vec_new_uninitialized in   *)
(* the example of mod.rs); `call` records what the latest call was given   *)
(* and which steps of its body ran.                                        *)
(*                                                                         *)
(* Spec is that caller.  SpecRetry is a caller that repeats one resolve    *)
(* call, remedying the reported key after each failure.  SpecConcurrent is *)
(* two threads that run one query each on handles of their own.            *)
(***************************************************************************)
EXTENDS Integers, Sequences, FiniteSets, TLC

\* ---------------------------------------------------------------- bounds
\* longest module import descriptor
MaxLen == 2
\* number of cuda_env_t handles the caller creates
MaxEnvs == 1

\* ------------------------------------------------------------ vocabulary
\* Option::None of a handle parameter (a NULL pointer on the C side)
NULL == 0
\* the one store, module and WASI environment the caller holds
STORE == 1
MODULE_ == 1
WASI_ENV == 1

\* import keys: (namespace, name)
K_fd_write == <<"sys", "fd_write">>
K_malloc == <<"env", "malloc">>
K_cuMemAlloc == <<"gpu", "cuMemAlloc">>
K_cuLaunchKernelV2 == <<"gpu", "cuLaunchKernelV2">>
Keys == {K_fd_write, K_malloc, K_cuMemAlloc, K_cuLaunchKernelV2}
NoKey == <<"", "">>

\* the keys generate_import_object_from_env registers for a WASI environment
WasiKeys == {K_fd_write, K_malloc}
\* the keys add_cuda_to_import registers for a GPU environment
CudaKeys == {K_malloc, K_cuMemAlloc}

\* the export a provider instance holds for a key
WasiBinding(k) == <<"wasi", WASI_ENV, k>>
CudaBinding(h, k) == <<"cuda", h, k>>

Descriptors == UNION {[1..n -> Keys] : n \in 0..MaxLen}
\* what get_wasi_version(&module.inner, false) returns: None or Some(version)
Versions == {"none", "snapshot1"}
Modules == {[imports |-> d, wasi_version |-> v] : d \in Descriptors, v \in Versions}

\* contents of a vector the caller allocated but did not fill
UninitImports == << <<"uninit", NULL, NoKey>> >>
UninitNamed == << <<"", "", <<"uninit", NULL, NoKey>> >> >>

\* the last-error slot (crate::error): empty, or the CApiError most recently recorded
NoError == [msg |-> "", key |-> NoKey]
VersionError == [msg |-> "could not detect a WASI version on this module", key |-> NoKey]
UnresolvedError(k) == [msg |-> "failed to resolve import", key |-> k]

VARIABLES
    module,             \* the compiled module the caller works on
    wasi_env,           \* the WASI environment the caller holds
    cuda_envs,          \* handle -> [status, offers] of each cuda_env_t
    heap,               \* "ok", or "undefined" after a double free
    last_error,         \* the caller-readable last-error slot
    imports,            \* the wasm_extern_vec_t out-parameter of the latest call
                        \* (<<>> when that call takes none)
    unordered_imports,  \* the wasmer_named_extern_vec_t out-parameter of the latest call
                        \* (<<>> when that call takes none)
    call,               \* the latest call: its arguments, result and the steps it ran
    retry,              \* a caller that re-invokes a resolve call after each miss
    threads             \* two callers that run a query each at the same time

vars == <<module, wasi_env, cuda_envs, heap, last_error, imports, unordered_imports, call,
          retry, threads>>

Handles == 1..MaxEnvs

\* ------------------------------------------------------- import objects
\* imports! {}
EmptyImports == [k \in {} |-> NoKey]

\* generate_import_object_from_env(store, wasi_env.inner.clone(), version)
generate_import_object_from_env(env, version) ==
    [k \in env.offers |-> WasiBinding(k)]

\* add_cuda_to_import(store, cuda_env.inner.clone(), &mut import_object):
\* inserts every binding of the GPU environment, overwriting an entry of the same key
add_cuda_to_import(h, env, import_object) ==
    [k \in (DOMAIN import_object) \cup env.offers |->
        IF k \in env.offers THEN CudaBinding(h, k) ELSE import_object[k]]

\* ImportObject::resolve_by_name(module, name): Option<Export>, as a sequence of 0 or 1
resolve_by_name(import_object, k) ==
    IF k \in DOMAIN import_object THEN <<import_object[k]>> ELSE <<>>

\* crate::error::update_last_error(err): the slot holds err afterwards
update_last_error(slot, err) == err

\* the environment moved into the import object instead of cloned
moved_env(env) == [env EXCEPT !.offers = {}]

\* cuda_env.inner.clone() hands a copy to the import object: the handle keeps its state
clone_env(env) == env

\* ------------------------------------------------------------- resolver
\* module.inner.imports().map(closure).collect::<Option<Vec<_>>>(): the closure is
\* applied in descriptor order and the collection stops at the first None
RECURSIVE collect(_, _, _, _)
collect(rest, import_object, out, looked) ==
    IF rest = <<>>
    THEN [ok |-> TRUE, out |-> out, looked |-> looked, missing |-> NoKey]
    ELSE LET import_type == Head(rest)
             export == resolve_by_name(import_object, import_type)
         IN IF export = <<>>
            THEN [ok |-> FALSE, out |-> out, looked |-> Append(looked, import_type),
                  missing |-> import_type]
            ELSE collect(Tail(rest), import_object, Append(out, export[1]),
                         Append(looked, import_type))

\* the scan of a resolver that visits every entry and keeps the last miss
RECURSIVE collect_all(_, _, _, _, _)
collect_all(rest, import_object, out, looked, missing) ==
    IF rest = <<>>
    THEN [ok |-> missing = NoKey, out |-> out, looked |-> looked, missing |-> missing]
    ELSE LET import_type == Head(rest)
             export == resolve_by_name(import_object, import_type)
         IN IF export = <<>>
            THEN collect_all(Tail(rest), import_object, out,
                             Append(looked, import_type), import_type)
            ELSE collect_all(Tail(rest), import_object, Append(out, export[1]),
                             Append(looked, import_type), missing)

\* a resolver that pushes each export to the front of the output
map_to_ordered_imports_reversed(imports_in, err_in, m, import_object) ==
    LET r == collect(m.imports, import_object, <<>>, <<>>)
        rev == [i \in 1..Len(r.out) |-> r.out[Len(r.out) + 1 - i]]
    IN IF r.ok
       THEN [ret |-> TRUE, imports |-> rev, last_error |-> err_in,
             looked |-> r.looked, recorded |-> FALSE]
       ELSE [ret |-> FALSE, imports |-> imports_in,
             last_error |-> update_last_error(err_in, UnresolvedError(r.missing)),
             looked |-> r.looked, recorded |-> TRUE]

\* a resolver that stores what it built so far when it fails
map_to_ordered_imports_partial(imports_in, err_in, m, import_object) ==
    LET r == collect(m.imports, import_object, <<>>, <<>>)
    IN IF r.ok
       THEN [ret |-> TRUE, imports |-> r.out, last_error |-> err_in,
             looked |-> r.looked, recorded |-> FALSE]
       ELSE [ret |-> FALSE, imports |-> r.out,
             last_error |-> update_last_error(err_in, UnresolvedError(r.missing)),
             looked |-> r.looked, recorded |-> TRUE]

\* a resolver that collects a Vec<Option<_>> first and fails afterwards
map_to_ordered_imports_scan_all(imports_in, err_in, m, import_object) ==
    LET r == collect_all(m.imports, import_object, <<>>, <<>>, NoKey)
    IN IF r.ok
       THEN [ret |-> TRUE, imports |-> r.out, last_error |-> err_in,
             looked |-> r.looked, recorded |-> FALSE]
       ELSE [ret |-> FALSE, imports |-> imports_in,
             last_error |-> update_last_error(err_in, UnresolvedError(r.missing)),
             looked |-> r.looked, recorded |-> TRUE]

\* map_to_ordered_imports(imports, module, import_object, store)
map_to_ordered_imports(imports_in, err_in, m, import_object) ==
    LET r == collect(m.imports, import_object, <<>>, <<>>)
    IN IF r.ok
       THEN [ret |-> TRUE, imports |-> r.out, last_error |-> err_in,
             looked |-> r.looked, recorded |-> FALSE]
       ELSE [ret |-> FALSE, imports |-> imports_in,
             last_error |-> update_last_error(err_in, UnresolvedError(r.missing)),
             looked |-> r.looked, recorded |-> TRUE]

\* a body that returned through `?` on an absent handle: nothing ran
absent_handle(imports_in, err_in) ==
    [ret |-> FALSE, imports |-> imports_in, last_error |-> err_in,
     looked |-> <<>>, recorded |-> FALSE,
     detected |-> FALSE, merged |-> <<>>, table |-> EmptyImports]

\* the steps of a body that got as far as the resolver
resolved(r, detected, merged, table) ==
    [ret |-> r.ret, imports |-> r.imports, last_error |-> r.last_error,
     looked |-> r.looked, recorded |-> r.recorded,
     detected |-> detected, merged |-> merged, table |-> table]

\* cuda_get_imports_inner
cuda_get_imports_inner(store, mod, cuda_env, imports_in, err_in) ==
    IF store = NULL \/ mod = NULL \/ cuda_env = NULL
    THEN absent_handle(imports_in, err_in)
    ELSE LET import_object ==
                 add_cuda_to_import(cuda_env, cuda_envs[cuda_env], EmptyImports)
         IN resolved(map_to_ordered_imports(imports_in, err_in, module, import_object),
                     FALSE, <<"cuda">>, import_object)

\* a table merged in the opposite order: GPU first, WASI second
merged_import_object_cuda_first(cuda_env, version) ==
    LET first == add_cuda_to_import(cuda_env, cuda_envs[cuda_env], EmptyImports)
    IN [k \in (DOMAIN first) \cup wasi_env.offers |->
           IF k \in wasi_env.offers THEN WasiBinding(k) ELSE first[k]]

\* the table of cuda_wasi_get_imports_inner: WASI first, GPU second
merged_import_object(cuda_env, version) ==
    add_cuda_to_import(cuda_env, cuda_envs[cuda_env],
                       generate_import_object_from_env(wasi_env, version))

\* a body that detects the version only after it resolved the imports
cuda_wasi_get_imports_inner_late_version(store, mod, cuda_env, wasi, imports_in, err_in) ==
    IF store = NULL \/ mod = NULL \/ cuda_env = NULL \/ wasi = NULL
    THEN absent_handle(imports_in, err_in)
    ELSE LET import_object == merged_import_object(cuda_env, module.wasi_version)
             r == resolved(map_to_ordered_imports(imports_in, err_in, module, import_object),
                           TRUE, <<"wasi", "cuda">>, import_object)
         IN IF r.ret /\ module.wasi_version = "none"
            THEN [r EXCEPT !.ret = FALSE, !.imports = imports_in,
                           !.last_error = update_last_error(err_in, VersionError),
                           !.recorded = TRUE]
            ELSE r

\* a body that looks at the WASI handle only when it needs it, after the version
cuda_wasi_get_imports_inner_late_handle(store, mod, cuda_env, wasi, imports_in, err_in) ==
    IF store = NULL \/ mod = NULL \/ cuda_env = NULL
    THEN absent_handle(imports_in, err_in)
    ELSE IF module.wasi_version = "none"
    THEN [ret |-> FALSE, imports |-> imports_in,
          last_error |-> update_last_error(err_in, VersionError),
          looked |-> <<>>, recorded |-> TRUE,
          detected |-> TRUE, merged |-> <<>>, table |-> EmptyImports]
    ELSE IF wasi = NULL
    THEN [absent_handle(imports_in, err_in) EXCEPT !.detected = TRUE]
    ELSE LET import_object == merged_import_object(cuda_env, module.wasi_version)
         IN resolved(map_to_ordered_imports(imports_in, err_in, module, import_object),
                     TRUE, <<"wasi", "cuda">>, import_object)

\* cuda_wasi_get_imports_inner
cuda_wasi_get_imports_inner(store, mod, cuda_env, wasi, imports_in, err_in) ==
    IF store = NULL \/ mod = NULL \/ cuda_env = NULL \/ wasi = NULL
    THEN absent_handle(imports_in, err_in)
    ELSE IF module.wasi_version = "none"
    THEN [ret |-> FALSE, imports |-> imports_in,
          last_error |-> update_last_error(err_in, VersionError),
          looked |-> <<>>, recorded |-> TRUE,
          detected |-> TRUE, merged |-> <<>>, table |-> EmptyImports]
    ELSE LET import_object == merged_import_object(cuda_env, module.wasi_version)
         IN resolved(map_to_ordered_imports(imports_in, err_in, module, import_object),
                     TRUE, <<"wasi", "cuda">>, import_object)

\* ------------------------------------------------------------- snapshot
\* the orders in which import_object.into_iter() may yield the entries of a table
iter_orders(import_object) ==
    LET D == DOMAIN import_object
    IN {o \in [1..Cardinality(D) -> D] : \A i, j \in 1..Cardinality(D) : o[i] = o[j] => i = j}

\* a snapshot that walks the first namespace of the table only
named_externs_first_namespace(import_object, order) ==
    LET keep == SelectSeq(order, LAMBDA k : k[1] = order[1][1])
    IN [i \in 1..Len(keep) |-> <<keep[i][1], keep[i][2], import_object[keep[i]]>>]

\* import_object.into_iter().map(..).collect::<Vec<_>>() for the order the iterator took
named_externs(import_object, order) ==
    [i \in 1..Len(order) |-> <<order[i][1], order[i][2], import_object[order[i]]>>]

\* cuda_get_unordered_imports_inner
cuda_get_unordered_imports_inner(store, cuda_env, order, unordered_in) ==
    IF store = NULL \/ cuda_env = NULL
    THEN [ret |-> FALSE, unordered |-> unordered_in, merged |-> <<>>, table |-> EmptyImports]
    ELSE LET import_object ==
                 add_cuda_to_import(cuda_env, cuda_envs[cuda_env], EmptyImports)
         IN [ret |-> TRUE, unordered |-> named_externs(import_object, order),
             merged |-> <<"cuda">>, table |-> import_object]

\* the orders the iterator of the snapshot's table may take (one dummy for an aborted call)
snapshot_orders(store, cuda_env) ==
    IF store = NULL \/ cuda_env = NULL THEN {<<>>}
    ELSE iter_orders(add_cuda_to_import(cuda_env, cuda_envs[cuda_env], EmptyImports))

\* ------------------------------------------------------------ life cycle
\* a delete that takes a raw pointer and frees it unchecked
delete_outcomes_unchecked(envs, x) ==
    IF x = NULL THEN {"ok", "undefined"}
    ELSE IF envs[x].status = "live" THEN {"ok"}
    ELSE {"ok", "undefined"}

\* what dropping the Option<Box<cuda_env_t>> argument of cuda_env_delete can do to the
\* heap: None and a live box are fine, a box that was already dropped is a double free
delete_outcomes(envs, x) ==
    IF x = NULL THEN {"ok"}
    ELSE IF envs[x].status = "live" THEN {"ok"}
    ELSE {"ok", "undefined"}

\* the handles after cuda_env_delete(x)
dropped(envs, x) ==
    IF x = NULL THEN envs ELSE [envs EXCEPT ![x].status = "released"]

\* handle arguments a caller can pass where Option<&cuda_env_t> is expected: None, or
\* a reference to an environment that has not been deleted
LiveOrNull == {NULL} \cup {h \in Handles : cuda_envs[h].status = "live"}

NoCall ==
    [op |-> "none", store |-> NULL, module |-> NULL, cuda_env |-> NULL, wasi_env |-> NULL,
     ret |-> TRUE, detected |-> FALSE, merged |-> <<>>, table |-> EmptyImports,
     looked |-> <<>>, recorded |-> FALSE]

\* no retrying caller, no concurrent callers
NoRetry == [op |-> "none", phase |-> "idle", lacking |-> {}, reported |-> <<>>]
NoThreads == <<>>

\* ---------------------------------------------------------------- state
Init ==
    /\ module \in Modules
    /\ wasi_env = [offers |-> WasiKeys]
    /\ cuda_envs = [h \in Handles |-> [status |-> "free", offers |-> {}]]
    /\ heap = "ok"
    /\ last_error = NoError
    /\ imports = <<>>
    /\ unordered_imports = <<>>
    /\ call = NoCall
    /\ retry = NoRetry
    /\ threads = NoThreads

\* cuda_env_new(): a fresh handle, never None
cuda_env_new ==
    /\ heap = "ok"
    /\ \E h \in Handles :
        /\ cuda_envs[h].status = "free"
        /\ \A g \in Handles : g < h => cuda_envs[g].status # "free"
        /\ cuda_envs' = [cuda_envs EXCEPT ![h] = [status |-> "live", offers |-> CudaKeys]]
        /\ call' = [NoCall EXCEPT !.op = "cuda_env_new", !.cuda_env = h]
    /\ UNCHANGED <<module, wasi_env, heap, last_error, imports, unordered_imports>>
    /\ UNCHANGED <<retry, threads>>

\* cuda_env_delete(x)
cuda_env_delete ==
    /\ heap = "ok"
    /\ \E x \in {NULL} \cup {h \in Handles : cuda_envs[h].status # "free"} :
        /\ heap' \in delete_outcomes(cuda_envs, x)
        /\ cuda_envs' = dropped(cuda_envs, x)
        /\ call' = [NoCall EXCEPT !.op = "cuda_env_delete", !.cuda_env = x]
    /\ UNCHANGED <<module, wasi_env, last_error, imports, unordered_imports>>
    /\ UNCHANGED <<retry, threads>>

\* cuda_get_imports(store, module, cuda_env, &imports)
cuda_get_imports ==
    /\ heap = "ok"
    /\ \E store \in {NULL, STORE}, mod \in {NULL, MODULE_}, cuda_env \in LiveOrNull :
        LET r == cuda_get_imports_inner(store, mod, cuda_env, UninitImports, last_error)
        IN /\ imports' = r.imports
           /\ last_error' = r.last_error
           /\ cuda_envs' = [h \in Handles |->
                  IF h = cuda_env /\ r.merged # <<>> THEN clone_env(cuda_envs[h])
                  ELSE cuda_envs[h]]
           /\ call' = [op |-> "cuda_get_imports", store |-> store, module |-> mod,
                       cuda_env |-> cuda_env, wasi_env |-> NULL, ret |-> r.ret,
                       detected |-> r.detected, merged |-> r.merged, table |-> r.table,
                       looked |-> r.looked, recorded |-> r.recorded]
    /\ unordered_imports' = <<>>
    /\ UNCHANGED <<module, wasi_env, heap, retry, threads>>

\* cuda_wasi_get_imports(store, module, cuda_env, wasi_env, &imports)
cuda_wasi_get_imports ==
    /\ heap = "ok"
    /\ \E store \in {NULL, STORE}, mod \in {NULL, MODULE_}, cuda_env \in LiveOrNull,
          wasi \in {NULL, WASI_ENV} :
        LET r == cuda_wasi_get_imports_inner(store, mod, cuda_env, wasi,
                                             UninitImports, last_error)
        IN /\ imports' = r.imports
           /\ last_error' = r.last_error
           /\ cuda_envs' = [h \in Handles |->
                  IF h = cuda_env /\ r.merged # <<>> THEN clone_env(cuda_envs[h])
                  ELSE cuda_envs[h]]
           /\ call' = [op |-> "cuda_wasi_get_imports", store |-> store, module |-> mod,
                       cuda_env |-> cuda_env, wasi_env |-> wasi, ret |-> r.ret,
                       detected |-> r.detected, merged |-> r.merged, table |-> r.table,
                       looked |-> r.looked, recorded |-> r.recorded]
    /\ unordered_imports' = <<>>
    /\ UNCHANGED <<module, wasi_env, heap, retry, threads>>

\* cuda_get_unordered_imports(store, cuda_env, &unordered_imports)
cuda_get_unordered_imports ==
    /\ heap = "ok"
    /\ \E store \in {NULL, STORE}, cuda_env \in LiveOrNull :
       \E order \in snapshot_orders(store, cuda_env) :
        LET r == cuda_get_unordered_imports_inner(store, cuda_env, order, UninitNamed)
        IN /\ unordered_imports' = r.unordered
           /\ cuda_envs' = [h \in Handles |->
                  IF h = cuda_env /\ r.merged # <<>> THEN clone_env(cuda_envs[h])
                  ELSE cuda_envs[h]]
           /\ call' = [op |-> "cuda_get_unordered_imports", store |-> store,
                       module |-> NULL, cuda_env |-> cuda_env, wasi_env |-> NULL,
                       ret |-> r.ret, detected |-> FALSE, merged |-> r.merged,
                       table |-> r.table, looked |-> <<>>, recorded |-> FALSE]
    /\ imports' = <<>>
    /\ UNCHANGED <<module, wasi_env, heap, last_error, retry, threads>>

Next ==
    \/ cuda_env_new
    \/ cuda_env_delete
    \/ cuda_get_imports
    \/ cuda_wasi_get_imports
    \/ cuda_get_unordered_imports

Spec == Init /\ [][Next]_vars

\* ------------------------------------------------------- retrying caller
\* A caller that holds every handle calls one resolve operation on its module; after
\* each failure it reads the key the last-error slot names, provides a binding for
\* exactly that key in the GPU environment, and calls again.
ResolveOps == {"cuda_get_imports", "cuda_wasi_get_imports"}

\* the keys the table of a resolve operation holds for a GPU environment
table_keys(op, env) ==
    IF op = "cuda_wasi_get_imports" THEN WasiKeys \cup env.offers ELSE env.offers

InitRetry ==
    /\ module \in Modules
    /\ wasi_env = [offers |-> WasiKeys]
    /\ \E offers \in SUBSET Keys :
           cuda_envs = [h \in Handles |->
               IF h = 1 THEN [status |-> "live", offers |-> offers]
               ELSE [status |-> "free", offers |-> {}]]
    /\ heap = "ok"
    /\ last_error = NoError
    /\ imports = <<>>
    /\ unordered_imports = <<>>
    /\ call = NoCall
    /\ \E op \in ResolveOps :
        /\ op = "cuda_wasi_get_imports" => module.wasi_version # "none"
        /\ retry = [op |-> op, phase |-> "call", reported |-> <<>>,
                    lacking |-> {module.imports[i] : i \in 1..Len(module.imports)}
                                    \ table_keys(op, cuda_envs[1])]
    /\ threads = NoThreads

\* the caller invokes the resolve operation with all its handles
retry_call ==
    /\ retry.phase = "call"
    /\ LET r == IF retry.op = "cuda_get_imports"
                THEN cuda_get_imports_inner(STORE, MODULE_, 1, UninitImports, last_error)
                ELSE cuda_wasi_get_imports_inner(STORE, MODULE_, 1, WASI_ENV,
                                                 UninitImports, last_error)
       IN /\ imports' = r.imports
          /\ last_error' = r.last_error
          /\ cuda_envs' = [cuda_envs EXCEPT ![1] = clone_env(@)]
          /\ call' = [op |-> retry.op, store |-> STORE, module |-> MODULE_,
                      cuda_env |-> 1,
                      wasi_env |-> IF retry.op = "cuda_get_imports" THEN NULL ELSE WASI_ENV,
                      ret |-> r.ret, detected |-> r.detected, merged |-> r.merged,
                      table |-> r.table, looked |-> r.looked, recorded |-> r.recorded]
          /\ retry' = IF r.ret THEN [retry EXCEPT !.phase = "done"]
                      ELSE [retry EXCEPT !.phase = "remedy",
                                         !.reported = Append(@, r.last_error.key)]
    /\ unordered_imports' = <<>>
    /\ UNCHANGED <<module, wasi_env, heap, threads>>

\* the caller provides a binding for the key the failed call reported
retry_remedy ==
    /\ retry.phase = "remedy"
    /\ cuda_envs' = [cuda_envs EXCEPT ![1].offers = @ \cup {last_error.key}]
    /\ retry' = [retry EXCEPT !.phase = "call"]
    /\ UNCHANGED <<module, wasi_env, heap, last_error, imports, unordered_imports, call,
                   threads>>

NextRetry ==
    \/ retry_call
    \/ retry_remedy

SpecRetry == InitRetry /\ [][NextRetry]_vars

\* ---------------------------------------------------- concurrent callers
\* Two threads run one query each, at the same time, each on its own module, its own
\* GPU and WASI environment and its own output vector, with every handle present.
\* A thread takes a step at each point where its call touches something another
\* thread can reach: the last-error slot is the one such place (spec 1 and 9 call it
\* process-wide); what lies between two such points is local to the call.
Threads == {1, 2}

\* the GPU environment of thread t, as cuda_env_new made it
thread_env(t) == [status |-> "live", offers |-> CudaKeys]

\* what a thread can call: a resolve operation on a module, or the snapshot
ThreadCalls ==
    {[op |-> "cuda_get_imports", module |-> m] : m \in {x \in Modules : x.wasi_version # "none"}}
    \cup {[op |-> "cuda_wasi_get_imports", module |-> m] : m \in Modules}
    \cup {[op |-> "cuda_get_unordered_imports",
            module |-> [imports |-> <<>>, wasi_version |-> "none"]]}

\* a thread about to enter its call, its out-parameter allocated
thread_start(c) ==
    [pc |-> "start", op |-> c.op, module |-> c.module, table |-> EmptyImports,
     ret |-> FALSE,
     out |-> IF c.op = "cuda_get_unordered_imports" THEN UninitNamed ELSE UninitImports,
     read |-> NoError]

\* a table kept in one static shared by all calls: the latest one built
shared_table(ths, t) ==
    LET other == CHOOSE u \in Threads : u # t
    IN IF ths[other].pc # "start" /\ ths[other].table # EmptyImports
       THEN ths[other].table ELSE ths[t].table

\* `let mut import_object`: the table a call resolves against is its own local
local_table(ths, t) == ths[t].table

InitConcurrent ==
    /\ module = [imports |-> <<>>, wasi_version |-> "none"]
    /\ wasi_env = [offers |-> WasiKeys]
    /\ cuda_envs = [h \in Handles |-> [status |-> "free", offers |-> {}]]
    /\ heap = "ok"
    /\ last_error = NoError
    /\ imports = <<>>
    /\ unordered_imports = <<>>
    /\ call = NoCall
    /\ retry = NoRetry
    /\ \E c1, c2 \in ThreadCalls : threads = <<thread_start(c1), thread_start(c2)>>

\* the body up to the resolver: version detection and table construction
t_begin(t) ==
    LET th == threads[t]
    IN /\ th.pc = "start"
       /\ IF th.op = "cuda_wasi_get_imports" /\ th.module.wasi_version = "none"
          THEN /\ last_error' = update_last_error(last_error, VersionError)
               /\ threads' = [threads EXCEPT ![t].pc = "failed"]
          ELSE /\ last_error' = last_error
               /\ threads' = [threads EXCEPT
                      ![t].pc = "scan",
                      ![t].table =
                          IF th.op = "cuda_wasi_get_imports"
                          THEN add_cuda_to_import(t, clone_env(thread_env(t)),
                                   generate_import_object_from_env(
                                       wasi_env, th.module.wasi_version))
                          ELSE add_cuda_to_import(t, clone_env(thread_env(t)),
                                                  EmptyImports)]
       /\ UNCHANGED <<module, wasi_env, cuda_envs, heap, imports, unordered_imports,
                      call, retry>>

\* map_to_ordered_imports of a resolve call
t_resolve(t) ==
    LET th == threads[t]
        r == map_to_ordered_imports(th.out, last_error, th.module, local_table(threads, t))
    IN /\ th.pc = "scan"
       /\ th.op \in ResolveOps
       /\ last_error' = r.last_error
       /\ threads' = [threads EXCEPT ![t].pc = IF r.ret THEN "done" ELSE "failed",
                                     ![t].ret = r.ret,
                                     ![t].out = r.imports]
       /\ UNCHANGED <<module, wasi_env, cuda_envs, heap, imports, unordered_imports,
                      call, retry>>

\* the iteration of the snapshot call
t_snapshot(t) ==
    LET th == threads[t]
        import_object == local_table(threads, t)
    IN /\ th.pc = "scan"
       /\ th.op = "cuda_get_unordered_imports"
       /\ \E order \in iter_orders(import_object) :
              threads' = [threads EXCEPT ![t].pc = "done",
                                        ![t].ret = TRUE,
                                        ![t].out = named_externs(import_object, order)]
       /\ UNCHANGED <<module, wasi_env, cuda_envs, heap, last_error, imports,
                      unordered_imports, call, retry>>

\* print_wasmer_error(): the caller of a failed call reads the last-error slot
t_read(t) ==
    /\ threads[t].pc = "failed"
    /\ threads' = [threads EXCEPT ![t].pc = "done", ![t].read = last_error]
    /\ UNCHANGED <<module, wasi_env, cuda_envs, heap, last_error, imports,
                   unordered_imports, call, retry>>

NextConcurrent ==
    \E t \in Threads :
        \/ t_begin(t)
        \/ t_resolve(t)
        \/ t_snapshot(t)
        \/ t_read(t)

SpecConcurrent == InitConcurrent /\ [][NextConcurrent]_vars

\* ------------------------------------------------------- claim vocabulary
\* the descriptor of the module the latest call was given
L == module.imports
IsResolve == call.op \in {"cuda_get_imports", "cuda_wasi_get_imports"}
IsQuery == IsResolve \/ call.op = "cuda_get_unordered_imports"
\* the latest call got as far as building its import table
TableBuilt == call.merged # <<>>
\* descriptor indices whose key the table of the latest call lacks
MissingAt == {i \in 1..Len(L) : L[i] \notin DOMAIN call.table}
FirstMissing == CHOOSE i \in MissingAt : \A j \in MissingAt : i <= j
\* a handle the latest call requires was NULL
RequiredAbsent ==
    \/ call.store = NULL
    \/ call.cuda_env = NULL
    \/ IsResolve /\ call.module = NULL
    \/ call.op = "cuda_wasi_get_imports" /\ call.wasi_env = NULL

\* C1: when the table of a resolve call holds every key of the descriptor, the call
\* succeeds and imports[i] is the table's binding of L[i] for every i, also for a
\* descriptor that repeats a key; a binding of a key L does not declare is not in it.
C1_ResolveAligned ==
    (IsResolve /\ TableBuilt /\ MissingAt = {}) =>
        /\ call.ret
        /\ Len(imports) = Len(L)
        /\ \A i \in 1..Len(L) : imports[i] = call.table[L[i]]
        /\ \A k \in DOMAIN call.table :
               (\A i \in 1..Len(L) : L[i] # k) =>
                   \A i \in 1..Len(imports) : imports[i] # call.table[k]

\* C1 witness: a successful resolve of a descriptor that declares one key twice,
\* against a table that also holds a key the descriptor does not declare
C1_Witness ==
    /\ IsResolve /\ TableBuilt /\ call.ret
    /\ Len(L) = 2 /\ L[1] = L[2]
    /\ \E k \in DOMAIN call.table : k # L[1]
    /\ imports = <<call.table[L[1]], call.table[L[1]]>>

\* C2: when the table of a resolve call lacks a key of the descriptor, the call
\* returns failure and the caller's vector is as it was before the call.
C2_AllOrNothing ==
    (IsResolve /\ TableBuilt /\ MissingAt # {}) =>
        /\ ~call.ret
        /\ imports = UninitImports

\* C2 witness: a failed resolve whose first key was resolved and whose second is absent
C2_Witness ==
    /\ IsResolve /\ TableBuilt /\ ~call.ret
    /\ MissingAt = {2}
    /\ call.looked = L
    /\ imports = UninitImports

\* C3: when several keys of the descriptor are absent, the recorded failure names the
\* absent key of lowest index and the scan looked up nothing after it.
C3_FirstMissReported ==
    (IsResolve /\ TableBuilt /\ Cardinality({L[i] : i \in MissingAt}) >= 2) =>
        /\ ~call.ret
        /\ call.recorded
        /\ last_error = UnresolvedError(L[FirstMissing])
        /\ call.looked = SubSeq(L, 1, FirstMissing)

\* C3 witness: a failed resolve of a descriptor with two different absent keys
C3_Witness ==
    /\ IsResolve /\ TableBuilt /\ ~call.ret
    /\ Cardinality({L[i] : i \in MissingAt}) >= 2
    /\ last_error.key = L[1]
    /\ Len(call.looked) = 1

\* C4: the table of cuda_wasi_get_imports is the WASI environment's bindings overridden
\* key by key with the GPU environment's: a key of both maps to the GPU binding, a key
\* of one to that one's binding, and no other key is in the table.
C4_MergeGpuOverridesWasi ==
    (call.op = "cuda_wasi_get_imports" /\ TableBuilt) =>
        LET W == wasi_env.offers
            G == cuda_envs[call.cuda_env].offers
        IN /\ DOMAIN call.table = W \cup G
           /\ \A k \in W \cup G :
                  call.table[k] = IF k \in G THEN CudaBinding(call.cuda_env, k)
                                  ELSE WasiBinding(k)
           /\ call.ret => \A i \in 1..Len(L) :
                  imports[i] = IF L[i] \in G THEN CudaBinding(call.cuda_env, L[i])
                               ELSE WasiBinding(L[i])

\* C4 witness: a merged resolve that succeeded on a key of both environments and a key
\* of the WASI environment alone
C4_Witness ==
    /\ call.op = "cuda_wasi_get_imports" /\ call.ret
    /\ L = <<K_malloc, K_fd_write>>
    /\ K_malloc \in wasi_env.offers \cap cuda_envs[call.cuda_env].offers
    /\ imports = <<CudaBinding(call.cuda_env, K_malloc), WasiBinding(K_fd_write)>>

\* C5: a cuda_wasi_get_imports call with all handles present on a module without a
\* detectable WASI version fails with the version error before any environment is
\* merged and before any key is looked up, and leaves the caller's vector unchanged.
C5_VersionBeforeLookups ==
    (call.op = "cuda_wasi_get_imports" /\ ~RequiredAbsent /\ module.wasi_version = "none") =>
        /\ ~call.ret
        /\ call.detected
        /\ call.recorded
        /\ last_error = VersionError
        /\ call.merged = <<>>
        /\ call.table = EmptyImports
        /\ call.looked = <<>>
        /\ imports = UninitImports

\* C5 witness: such a call on a module whose every declared key the two environments offer
C5_Witness ==
    /\ call.op = "cuda_wasi_get_imports" /\ ~RequiredAbsent
    /\ module.wasi_version = "none"
    /\ Len(L) = 2
    /\ \A i \in 1..Len(L) : L[i] \in wasi_env.offers \cup cuda_envs[call.cuda_env].offers
    /\ ~call.ret

\* C6: a query called with a required handle absent returns failure before any work:
\* no version detection, no table, no lookup, and the caller's vector is unchanged.
C6_AbsentHandleAborts ==
    (IsQuery /\ RequiredAbsent) =>
        /\ ~call.ret
        /\ ~call.detected
        /\ call.merged = <<>>
        /\ call.table = EmptyImports
        /\ call.looked = <<>>
        /\ IsResolve => imports = UninitImports
        /\ call.op = "cuda_get_unordered_imports" => unordered_imports = UninitNamed

\* C6 witness: cuda_wasi_get_imports with only the WASI handle absent
C6_Witness ==
    /\ call.op = "cuda_wasi_get_imports"
    /\ call.store # NULL /\ call.module # NULL /\ call.cuda_env # NULL
    /\ call.wasi_env = NULL
    /\ ~call.ret
    /\ imports = UninitImports

\* C7 (as claimed): every query that returns failure recorded a message in the
\* last-error slot during that call.
C7_FailureRecorded ==
    (IsQuery /\ ~call.ret) => (call.recorded /\ last_error # NoError)

FreshOffered ==
    IF call.op = "cuda_wasi_get_imports" THEN WasiKeys \cup CudaKeys ELSE CudaKeys
FreshBinding(k) ==
    IF k \in CudaKeys THEN CudaBinding(call.cuda_env, k) ELSE WasiBinding(k)
FreshMissingAt == {i \in 1..Len(L) : L[i] \notin FreshOffered}
FreshVersionOk == call.op = "cuda_wasi_get_imports" => module.wasi_version # "none"
FreshRet ==
    /\ ~RequiredAbsent
    /\ FreshVersionOk
    /\ IsResolve => FreshMissingAt = {}

\* C10: whatever calls came before, the environments offer the bindings they were
\* created with and the latest query returns what a first call with its arguments
\* returns: the same result, the same output or the same missing key, from a table
\* built of the environments of this call.
C10_HistoryIndependent ==
    /\ wasi_env.offers = WasiKeys
    /\ \A h \in Handles : cuda_envs[h].status # "free" => cuda_envs[h].offers = CudaKeys
    /\ IsQuery =>
        /\ call.ret = FreshRet
        /\ TableBuilt => call.table = [k \in FreshOffered |-> FreshBinding(k)]
        /\ (IsResolve /\ call.ret) => imports = [i \in 1..Len(L) |-> FreshBinding(L[i])]
        /\ (IsResolve /\ ~call.ret) => imports = UninitImports
        /\ (IsResolve /\ ~RequiredAbsent /\ FreshVersionOk /\ FreshMissingAt # {}) =>
               last_error = UnresolvedError(
                   L[CHOOSE i \in FreshMissingAt : \A j \in FreshMissingAt : i <= j])
        /\ (call.op = "cuda_get_unordered_imports" /\ call.ret) =>
               {unordered_imports[i] : i \in 1..Len(unordered_imports)} =
                   {<<k[1], k[2], FreshBinding(k)>> : k \in FreshOffered}

\* C10 witness: a resolve call that succeeds after an earlier call failed and left its
\* message in the last-error slot
C10_Witness ==
    /\ IsResolve /\ call.ret
    /\ Len(L) >= 1
    /\ last_error # NoError

\* the keys of `lacking` in the order of their first occurrence in the descriptor s
RECURSIVE MissesInOrder(_, _)
MissesInOrder(s, lacking) ==
    IF s = <<>> THEN <<>>
    ELSE IF Head(s) \in lacking
         THEN <<Head(s)>> \o MissesInOrder(Tail(s), lacking \ {Head(s)})
         ELSE MissesInOrder(Tail(s), lacking)

\* how many distinct keys of the descriptor the table of `op` lacks now
MissingAtOf(op) ==
    Cardinality({L[i] : i \in 1..Len(L)} \ table_keys(op, cuda_envs[1]))

\* C11: a caller that remedies exactly the reported key after each failure sees, for a
\* table that lacked d distinct keys of the descriptor, d failures that report those
\* keys in the order of their first occurrence, none of them twice, and then a success.
C11_RetryConverges ==
    retry.op # "none" =>
        LET expected == MissesInOrder(L, retry.lacking)
            n == Len(retry.reported)
        IN /\ Len(expected) = Cardinality(retry.lacking)
           /\ n <= Len(expected)
           /\ retry.reported = SubSeq(expected, 1, n)
           /\ retry.phase = "call" => MissingAtOf(retry.op) = Len(expected) - n
           /\ retry.phase = "done" =>
                  /\ call.ret
                  /\ retry.reported = expected
                  /\ Len(imports) = Len(L)
           /\ retry.phase # "done" => ENABLED NextRetry

\* C11 witness: the caller succeeded after two failures that reported different keys
C11_Witness ==
    /\ retry.phase = "done"
    /\ Len(retry.reported) = 2
    /\ retry.reported[1] # retry.reported[2]
    /\ call.ret

\* what the call of thread t returns when it runs alone
SoloTable(t) ==
    LET th == threads[t]
    IN IF th.op = "cuda_wasi_get_imports"
       THEN [k \in WasiKeys \cup CudaKeys |->
                IF k \in CudaKeys THEN CudaBinding(t, k) ELSE WasiBinding(k)]
       ELSE [k \in CudaKeys |-> CudaBinding(t, k)]
SoloMissing(t) ==
    {i \in 1..Len(threads[t].module.imports) :
        threads[t].module.imports[i] \notin DOMAIN SoloTable(t)}
SoloRet(t) ==
    LET th == threads[t]
    IN /\ th.op = "cuda_wasi_get_imports" => th.module.wasi_version # "none"
       /\ th.op \in ResolveOps => SoloMissing(t) = {}
SoloError(t) ==
    LET th == threads[t]
    IN IF th.op = "cuda_wasi_get_imports" /\ th.module.wasi_version = "none"
       THEN VersionError
       ELSE UnresolvedError(th.module.imports[
                CHOOSE i \in SoloMissing(t) : \A j \in SoloMissing(t) : i <= j])
\* the signal and the output of thread t are those of its call run alone
SoloOutcome(t) ==
    LET th == threads[t]
    IN /\ th.ret = SoloRet(t)
       /\ (th.op \in ResolveOps /\ th.ret) =>
              th.out = [i \in 1..Len(th.module.imports) |-> SoloTable(t)[th.module.imports[i]]]
       /\ (th.op \in ResolveOps /\ ~th.ret) => th.out = UninitImports
       /\ th.op = "cuda_get_unordered_imports" =>
              /\ Len(th.out) = Cardinality(DOMAIN SoloTable(t))
              /\ {th.out[i] : i \in 1..Len(th.out)} =
                     {<<k[1], k[2], SoloTable(t)[k]>> : k \in DOMAIN SoloTable(t)}

====
